---- MODULE Spec2Model ----
(***************************************************************************)
(* A model of gpt_adder.ipynb: the tokenizer, the batch generator          *)
(* generate_batch, the construction and forward pass of                    *)
(* TransformerLanguageModel, and its autoregressive generate loop.         *)
(***************************************************************************)
EXTENDS Integers, Sequences, FiniteSets, TLC

VARIABLES
    \* tokenizer calls
    tok_op, tok_sym, tok_ids,
    \* generate_batch: position, arguments, the loop's locals and the result
    gb_pc, gb_args, a, b, inputs, targets, x, y,
    \* TransformerLanguageModel construction and a direct forward call
    cfg, made, fwd_in, fwd_out,
    \* the model instance m: nn.Module.training, and one generate call
    training, pc, prior, seed, max_new_tokens, steps, idx, idx_crop, err,
    \* two forward passes on rows of one length: the rows, the mode they ran in,
    \* the first block's attention outputs and the logits
    att_in, att_mode, att_attn, att_logits,
    \* the training loop: position, epoch, the parameters (as the number of
    \* optimizer updates applied), the gradients, estimate_loss's split and k,
    \* the operations of the current step so far, the runs of the loop so far,
    \* whether a call has ended in an exception, whether a generate has returned
    tl_pc, epoch, params, grads, est_split, est_k, ops, runs, aborted, gen_done

tokVars == <<tok_op, tok_sym, tok_ids>>
gbVars == <<gb_pc, gb_args, a, b, inputs, targets, x, y>>
cfgVars == <<cfg, made, fwd_in, fwd_out>>
genVars == <<training, pc, prior, seed, max_new_tokens, steps, idx, idx_crop, err>>
attVars == <<att_in, att_mode, att_attn, att_logits>>
tlVars == <<tl_pc, epoch, params, grads, est_split, est_k, ops, runs, aborted, gen_done>>
genLocals == <<pc, prior, seed, max_new_tokens, steps, idx, idx_crop, err>>
vars == <<tokVars, gbVars, cfgVars, genVars, attVars, tlVars>>

(***************************************************************************)
(* Bounds of the model.                                                    *)
(***************************************************************************)
MaxTokLen == 2
MaxDigits == 2
MaxBlockSize == 16
MaxBatch == 2

(***************************************************************************)
(* Sequence helpers (Python list operations).                              *)
(***************************************************************************)
RECURSIVE Repeat(_, _)
\* [v] * n; a count n <= 0 gives the empty list
Repeat(v, n) == IF n <= 0 THEN <<>> ELSE <<v>> \o Repeat(v, n - 1)

\* list(reversed(s))
Reversed(s) == [k \in 1..Len(s) |-> s[Len(s) + 1 - k]]

\* s[lo:hi] with 0 <= lo, Python's clipping of hi to len(s)
Slice(s, lo, hi) ==
    LET h == IF hi > Len(s) THEN Len(s) ELSE hi
    IN  IF lo >= h THEN <<>> ELSE SubSeq(s, lo + 1, h)

\* s[-n:] with n >= 1: the last min(len(s), n) elements
LastN(s, n) == IF Len(s) <= n THEN s ELSE SubSeq(s, Len(s) - n + 1, Len(s))

RECURSIVE Pow10(_)
Pow10(n) == IF n = 0 THEN 1 ELSE 10 * Pow10(n - 1)

(***************************************************************************)
(* Tokenizer.                                                              *)
(***************************************************************************)
\* the symbols in the order the source lists them, before sorted()
vocab_unsorted ==
    <<"0", "1", "2", "3", "4", "5", "6", "7", "8", "9", "10",
      "+", "=", "<START>", "<END>", "<PAD>">>

\* the code points of each symbol: Python compares strings by code point
CodePoints(s) ==
    CASE s = "+" -> <<43>>
      [] s = "0" -> <<48>>
      [] s = "1" -> <<49>>
      [] s = "2" -> <<50>>
      [] s = "3" -> <<51>>
      [] s = "4" -> <<52>>
      [] s = "5" -> <<53>>
      [] s = "6" -> <<54>>
      [] s = "7" -> <<55>>
      [] s = "8" -> <<56>>
      [] s = "9" -> <<57>>
      [] s = "10" -> <<49, 48>>
      [] s = "=" -> <<61>>
      [] s = "<START>" -> <<60, 83, 84, 65, 82, 84, 62>>
      [] s = "<END>" -> <<60, 69, 78, 68, 62>>
      [] s = "<PAD>" -> <<60, 80, 65, 68, 62>>

RECURSIVE LexLess(_, _)
\* lexicographic order on code point sequences
LexLess(p, q) ==
    IF q = <<>> THEN FALSE
    ELSE IF p = <<>> THEN TRUE
    ELSE IF p[1] # q[1] THEN p[1] < q[1]
    ELSE LexLess(Tail(p), Tail(q))

StrLess(s, t) == LexLess(CodePoints(s), CodePoints(t))

RECURSIVE Insert(_, _)
Insert(s, sorted) ==
    IF sorted = <<>> THEN <<s>>
    ELSE IF StrLess(s, sorted[1]) THEN <<s>> \o sorted
    ELSE <<sorted[1]>> \o Insert(s, Tail(sorted))

RECURSIVE Sorted(_)
\* sorted(list): stable insertion into the sorted tail
Sorted(l) == IF l = <<>> THEN <<>> ELSE Insert(l[1], Sorted(Tail(l)))

\* a vocabulary list in which '10' is mistyped as a second '1'
vocab_dup ==
    Sorted(<<"0", "1", "2", "3", "4", "5", "6", "7", "8", "9", "1",
             "+", "=", "<START>", "<END>", "<PAD>">>)

vocab == Sorted(vocab_unsorted)

vocab_size == Len(vocab)

Symbols == {vocab[i] : i \in 1..Len(vocab)}

Ids == 0..(vocab_size - 1)

\* {vocab[i]:i for i in range(vocab_size)}: a later i overwrites an earlier one
ctoi ==
    [s \in Symbols |->
        CHOOSE i \in Ids :
            /\ vocab[i + 1] = s
            /\ \A j \in Ids : vocab[j + 1] = s => j <= i]

\* {i:vocab[i] for i in range(vocab_size)}
itoc == [i \in Ids |-> vocab[i + 1]]

encode(s) == [k \in 1..Len(s) |-> ctoi[s[k]]]

decode(s) == [k \in 1..Len(s) |-> itoc[s[k]]]

RECURSIVE SeqsUpTo(_, _)
\* all sequences over S of length at most n
SeqsUpTo(S, n) ==
    IF n = 0 THEN {<<>>}
    ELSE LET shorter == SeqsUpTo(S, n - 1)
         IN  shorter \cup {Append(s, e) : s \in {t \in shorter : Len(t) = n - 1}, e \in S}

TokInit ==
    /\ tok_op = "none"
    /\ tok_sym = <<>>
    /\ tok_ids = <<>>

\* encode(s) for a sequence of vocabulary symbols
TokEncode ==
    /\ tok_op = "none"
    /\ \E s \in SeqsUpTo(Symbols, MaxTokLen) \ {<<>>} :
        /\ tok_op' = "encode"
        /\ tok_sym' = s
        /\ tok_ids' = encode(s)

\* the caller has taken the result of the call
TokDone ==
    /\ tok_op # "none"
    /\ tok_op' = "none"
    /\ tok_sym' = <<>>
    /\ tok_ids' = <<>>

\* decode(s) for a sequence of ids
TokDecode ==
    /\ tok_op = "none"
    /\ \E s \in SeqsUpTo(Ids, MaxTokLen) \ {<<>>} :
        /\ tok_op' = "decode"
        /\ tok_ids' = s
        /\ tok_sym' = decode(s)

(***************************************************************************)
(* generate_batch.                                                         *)
(***************************************************************************)
DigitChars == <<"0", "1", "2", "3", "4", "5", "6", "7", "8", "9">>

RECURSIVE Str(_)
\* str(n) for an integer n >= 0: its decimal digits, most significant first
Str(n) == IF n < 10 THEN <<DigitChars[n + 1]>> ELSE Append(Str(n \div 10), DigitChars[(n % 10) + 1])

\* s.zfill(width): zeros on the left up to width, never a truncation
zfill(s, width) == Repeat("0", width - Len(s)) \o s

\* the assertion compares block_size with the exact length of the problem string
MaxProblemSize_exact(max_digits) == 3 * max_digits + 5

\* max_problem_size = 3*max_digits+7
MaxProblemSize(max_digits) == 3 * max_digits + 7

\* the digits are reversed before the zero fill, so the zeros land on the wrong side
Answer_fill_late(c, max_digits, backward) ==
    IF backward THEN zfill(Reversed(Str(c)), max_digits + 1)
    ELSE zfill(Str(c), max_digits + 1)

\* answer = list(str(c).zfill(max_digits+1)), reversed in backward mode
Answer(c, max_digits, backward) ==
    LET answer == zfill(Str(c), max_digits + 1)
    IN  IF backward THEN Reversed(answer) ELSE answer

\* prompt = list(str(a).zfill(max_digits) + "+" + str(b).zfill(max_digits) + "=")
Prompt(m, n, max_digits) ==
    zfill(Str(m), max_digits) \o <<"+">> \o zfill(Str(n), max_digits) \o <<"=">>

\* problem = ['<START>'] + prompt + answer + ['<END>']
Problem(m, n, max_digits, backward) ==
    <<"<START>">> \o Prompt(m, n, max_digits)
        \o Answer(m + n, max_digits, backward) \o <<"<END>">>

\* the problem is padded to block_size only
Padded_short(problem, block_size) ==
    problem \o Repeat("<PAD>", block_size - Len(problem))

\* problem + ['<PAD>'] * (block_size+1-tot_len)
Padded(problem, block_size) ==
    problem \o Repeat("<PAD>", block_size + 1 - Len(problem))

\* the mask stops one position short of the '=' label
MaskLen_short(max_digits) == 2 * max_digits + 1

\* the number of leading target positions the mask overwrites
MaskLen(max_digits) == 2 * max_digits + 2

\* the label written over the masked targets
MaskLabel == -1

\* target[:n] = MaskLabel
Masked(target, n) ==
    [k \in 1..Len(target) |-> IF k <= n THEN MaskLabel ELSE target[k]]

\* input = encode(problem[:block_size])
InputRow(m, n, max_digits, backward, block_size) ==
    encode(Slice(Padded(Problem(m, n, max_digits, backward), block_size), 0, block_size))

\* target = encode(problem[1:block_size+1]) with target[:2*max_digits+2] = -1
TargetRow(m, n, max_digits, backward, block_size) ==
    Masked(encode(Slice(Padded(Problem(m, n, max_digits, backward), block_size),
                        1, block_size + 1)),
           MaskLen(max_digits))

\* F.cross_entropy(..., ignore_index=-1)
ignore_index == -1

\* the positions (1-based) of a target row that contribute to the loss
LossPositions(target) == {k \in 1..Len(target) : target[k] # ignore_index}

\* the values np.random.randint(0, 10**max_digits-1) is drawn from here: the
\* two smallest and the two largest of its range [0, 10**max_digits-2]
Operands(max_digits) ==
    {0, 1, Pow10(max_digits) - 3, Pow10(max_digits) - 2}

NoArgs == [block_size |-> 0, batch_size |-> 0, max_digits |-> 0, backward |-> FALSE]

GbInit ==
    /\ gb_pc = "idle"
    /\ gb_args = NoArgs
    /\ a = 0
    /\ b = 0
    /\ inputs = <<>>
    /\ targets = <<>>
    /\ x = <<>>
    /\ y = <<>>

\* the call and its assertion on block_size
GenerateBatchCall ==
    /\ gb_pc = "idle"
    /\ \E block_size \in 1..MaxBlockSize, batch_size \in 1..MaxBatch,
          max_digits \in 1..MaxDigits, backward \in BOOLEAN :
        /\ gb_args' = [block_size |-> block_size, batch_size |-> batch_size,
                       max_digits |-> max_digits, backward |-> backward]
        /\ gb_pc' = IF block_size >= MaxProblemSize(max_digits)
                    THEN "loop" ELSE "AssertionError"
    /\ UNCHANGED <<a, b, inputs, targets, x, y>>

\* one iteration of the loop over range(batch_size)
GenerateBatchExample ==
    /\ gb_pc = "loop"
    /\ Len(inputs) < gb_args.batch_size
    /\ \E m \in Operands(gb_args.max_digits), n \in Operands(gb_args.max_digits) :
        /\ a' = m
        /\ b' = n
        /\ inputs' = Append(inputs,
               InputRow(m, n, gb_args.max_digits, gb_args.backward, gb_args.block_size))
        /\ targets' = Append(targets,
               TargetRow(m, n, gb_args.max_digits, gb_args.backward, gb_args.block_size))
    /\ UNCHANGED <<gb_pc, gb_args, x, y>>

\* x = torch.stack(inputs); y = torch.stack(targets); return x, y
GenerateBatchReturn ==
    /\ gb_pc = "loop"
    /\ Len(inputs) = gb_args.batch_size
    /\ x' = inputs
    /\ y' = targets
    /\ gb_pc' = "returned"
    /\ UNCHANGED <<gb_args, a, b, inputs, targets>>

\* the caller has used the batch (or seen the error); the call's locals and
\* the batch are gone
GenerateBatchDone ==
    /\ gb_pc \in {"returned", "AssertionError"}
    /\ gb_pc' = "idle"
    /\ gb_args' = NoArgs
    /\ a' = 0
    /\ b' = 0
    /\ inputs' = <<>>
    /\ targets' = <<>>
    /\ x' = <<>>
    /\ y' = <<>>

(***************************************************************************)
(* TransformerLanguageModel: construction and forward pass.                *)
(***************************************************************************)
MaxDim == 2
MaxHeads == 2
MaxBlocks == 1
MaxBlock == 2

\* the notebook's configuration of m
embedding_dim == 128
head_size == embedding_dim
num_heads == 4
num_blocks == 4

NoCfg ==
    [vocab_size |-> 0, block_size |-> 0, embedding_dim |-> 0, head_size |-> 0,
     num_heads |-> 0, num_blocks |-> 0]

\* the arguments of the notebook's TransformerLanguageModel(...) call, with a
\* context window of block_size
NotebookCfg(block_size) ==
    [vocab_size |-> vocab_size, block_size |-> block_size,
     embedding_dim |-> embedding_dim, head_size |-> head_size,
     num_heads |-> num_heads, num_blocks |-> num_blocks]

\* MultiHeadAttention.__init__: the assertion on total_head_size
MultiHeadAttentionInit(total_head_size, heads) ==
    IF total_head_size % heads = 0 THEN "ok" ELSE "AssertionError"

\* TransformerLanguageModel.__init__: one TransformerBlock, hence one
\* MultiHeadAttention, is built per block; no other argument is checked
ConstructOutcome(c) ==
    IF c.num_blocks >= 1 THEN MultiHeadAttentionInit(c.head_size, c.num_heads) ELSE "ok"

\* the position table is indexed one row short
PosEmbeddingOk_short(c, T) == T < c.block_size

\* pos_embedding has block_size rows and is indexed by arange(T)
PosEmbeddingOk(c, T) == T <= c.block_size

\* token_embedding has vocab_size rows and is indexed by the token ids
TokenEmbeddingOk(c, row) == \A k \in 1..Len(row) : row[k] \in 0..(c.vocab_size - 1)

\* lm_head = nn.Linear(head_size, vocab_size) is applied to the (B,T,embedding_dim)
\* output of ln_f
LmHeadOk(c) == c.embedding_dim = c.head_size

\* forward(idx) without targets, on one row of token ids: "ok" or the first error
ForwardOutcome(c, row) ==
    IF ~TokenEmbeddingOk(c, row) THEN "token_embedding:IndexError"
    ELSE IF ~PosEmbeddingOk(c, Len(row)) THEN "pos_embedding:IndexError"
    ELSE IF ~LmHeadOk(c) THEN "lm_head:RuntimeError"
    ELSE "ok"

\* token ids a caller passes: two vocabulary ids and one id past the vocabulary
FwdIds == {ctoi["="], ctoi["<END>"], vocab_size}

CfgInit ==
    /\ cfg = NoCfg
    /\ made = "none"
    /\ fwd_in = <<>>
    /\ fwd_out = "none"

\* TransformerLanguageModel(vocab_size, block_size, embedding_dim, head_size,
\* num_heads, num_blocks)
Construct ==
    /\ made = "none"
    /\ \E bs \in 1..MaxBlock, ed \in 1..MaxDim, hs \in 1..MaxDim,
          nh \in 1..MaxHeads, nb \in 0..MaxBlocks :
        LET c == [vocab_size |-> vocab_size, block_size |-> bs, embedding_dim |-> ed,
                  head_size |-> hs, num_heads |-> nh, num_blocks |-> nb]
        IN  /\ cfg' = c
            /\ made' = ConstructOutcome(c)
    /\ UNCHANGED <<fwd_in, fwd_out>>

\* a direct call m(idx) on a constructed model
ForwardCall ==
    /\ made = "ok"
    /\ fwd_out = "none"
    /\ \E row \in SeqsUpTo(FwdIds, MaxBlock + 2) \ {<<>>} :
        /\ fwd_in' = row
        /\ fwd_out' = ForwardOutcome(cfg, row)
    /\ UNCHANGED <<cfg, made>>

\* the caller has the logits or the exception of the forward call
ForwardDone ==
    /\ fwd_out # "none"
    /\ fwd_in' = <<>>
    /\ fwd_out' = "none"
    /\ UNCHANGED <<cfg, made>>

\* the model m as the notebook builds it, constructed
NotebookModelInit ==
    /\ \E bs \in 1..MaxBlock : cfg = NotebookCfg(bs)
    /\ made = ConstructOutcome(cfg)
    /\ fwd_in = <<>>
    /\ fwd_out = "none"

(***************************************************************************)
(* TransformerLanguageModel.generate on the model m.                       *)
(***************************************************************************)
MaxNew == 2
MaxSeedLen == 2

\* the seeds a caller passes: any row of at most MaxSeedLen ids
Seeds == SeqsUpTo({ctoi["="], vocab_size}, MaxSeedLen)

\* the ids torch.multinomial can return: one index into the vocab_size logits
Sampled(c) == 0..(c.vocab_size - 1)

\* the whole running sequence is passed on, uncropped
Crop_none(running, c) == running

\* idx_crop = idx[:,-self.block_size:]
Crop(running, c) == LastN(running, c.block_size)

GenInit ==
    /\ training = TRUE
    /\ pc = "idle"
    /\ prior = TRUE
    /\ seed = <<>>
    /\ max_new_tokens = 0
    /\ steps = 0
    /\ idx = <<>>
    /\ idx_crop = <<>>
    /\ err = "none"

\* m.generate(idx, max_new_tokens) is entered: self.eval()
GenerateCall ==
    /\ pc = "idle"
    /\ made = "ok"
    /\ \E s \in Seeds, n \in 0..MaxNew :
        /\ seed' = s
        /\ idx' = s
        /\ max_new_tokens' = n
    /\ prior' = training
    /\ training' = FALSE
    /\ steps' = 0
    /\ pc' = "loop"
    /\ UNCHANGED <<idx_crop, err>>

\* one iteration of the loop: crop, forward pass, last logits, sample, append
GenerateStep ==
    /\ pc = "loop"
    /\ steps < max_new_tokens
    /\ LET crop == Crop(idx, cfg)
           out == ForwardOutcome(cfg, crop)
       IN  /\ idx_crop' = crop
           /\ IF out # "ok"
              THEN /\ pc' = "raised"
                   /\ err' = out
                   /\ UNCHANGED <<idx, steps>>
              ELSE IF Len(crop) = 0
              THEN \* logits[:,-1,:] of logits with no time step
                   /\ pc' = "raised"
                   /\ err' = "logits:IndexError"
                   /\ UNCHANGED <<idx, steps>>
              ELSE /\ \E idx_next \in Sampled(cfg) : idx' = Append(idx, idx_next)
                   /\ steps' = steps + 1
                   /\ UNCHANGED <<pc, err>>
    /\ UNCHANGED <<training, prior, seed, max_new_tokens>>

\* the loop ends as soon as an <END> token was sampled
GenerateReturn_at_end ==
    /\ pc = "loop"
    /\ \/ steps = max_new_tokens
       \/ steps >= 1 /\ idx[Len(idx)] = ctoi["<END>"]
    /\ training' = TRUE
    /\ pc' = "returned"
    /\ UNCHANGED <<prior, seed, max_new_tokens, steps, idx, idx_crop, err>>

\* the loop is exhausted and idx is returned with the model left in eval mode
GenerateReturn_keeps_eval ==
    /\ pc = "loop"
    /\ steps = max_new_tokens
    /\ pc' = "returned"
    /\ UNCHANGED <<training, prior, seed, max_new_tokens, steps, idx, idx_crop, err>>

\* the loop is exhausted: self.train(); return idx
GenerateReturn ==
    /\ pc = "loop"
    /\ steps = max_new_tokens
    /\ training' = TRUE
    /\ pc' = "returned"
    /\ UNCHANGED <<prior, seed, max_new_tokens, steps, idx, idx_crop, err>>

\* the caller has the result or the exception; the call's locals are gone and
\* the model keeps the mode the call left it in
GenerateDone ==
    /\ pc \in {"returned", "raised"}
    /\ pc' = "idle"
    /\ prior' = training
    /\ seed' = <<>>
    /\ max_new_tokens' = 0
    /\ steps' = 0
    /\ idx' = <<>>
    /\ idx_crop' = <<>>
    /\ err' = "none"
    /\ UNCHANGED training

(***************************************************************************)
(* The values a forward pass computes, as terms: a tuple names the          *)
(* operation and holds the values it reads, so two outputs are equal        *)
(* exactly when they are computed from the same inputs.                     *)
(***************************************************************************)
\* the random draws of the dropout masks of one forward pass
DropoutDraws == {1, 2}

\* token ids of the rows passed to the two forward passes
AttnIds == {ctoi["="], ctoi["<PAD>"]}

\* nn.Dropout, and dropout_p of the attention: active only in train mode
Dropout(v, train, r) == IF train THEN <<"dropout", r, v>> ELSE v

\* token_embedding(idx) + pos_embedding(arange(T)), position by position
Embed(row) == [t \in 1..Len(row) |-> <<"emb", row[t], t - 1>>]

\* nn.LayerNorm: mean and variance over the features of one position
LayerNorm(h) == [t \in 1..Len(h) |-> <<"ln", h[t]>>]

\* no mask: every query position attends to every key position
Visible_all(t, T) == 1..T

\* is_causal=True: the query at position t attends to the key positions s <= t
Visible(t, T) == {s \in 1..T : s <= t}

\* MultiHeadAttention.forward: for each position the query of that position,
\* the keys and values of the positions it attends to (a masked position has
\* weight zero and contributes nothing), in each of the heads; then proj and
\* output_dropout
MultiHeadAttentionForward(c, h, train, r) ==
    [t \in 1..Len(h) |->
        Dropout(<<"proj",
                  Dropout(<<"sdpa", c.num_heads, <<"q", h[t]>>,
                            [s \in 1..Len(h) |->
                                IF s \in Visible(t, Len(h)) THEN <<"kv", h[s]>>
                                ELSE <<"masked">>]>>,
                          train, r)>>,
                train, r)]

\* x + ff(ln2(x)): the feed-forward net, its dropout and the residual read
\* only the value at their own position, which the term holds once
FeedForwardResidual(h, train, r) ==
    [t \in 1..Len(h) |-> <<"add_ff", h[t], Dropout(<<"ff_ln2">>, train, r)>>]

\* TransformerBlock.forward
TransformerBlockForward(c, h, train, r) ==
    LET sa == MultiHeadAttentionForward(c, LayerNorm(h), train, r)
        h1 == [t \in 1..Len(h) |-> <<"add", h[t], sa[t]>>]
    IN  FeedForwardResidual(h1, train, r)

RECURSIVE Blocks(_, _, _, _, _)
\* self.blocks(x): n TransformerBlocks in sequence
Blocks(c, h, n, train, r) ==
    IF n = 0 THEN h
    ELSE TransformerBlockForward(c, Blocks(c, h, n - 1, train, r), train, r)

\* the logits of forward(idx): lm_head(ln_f(blocks(embeddings)))
Logits(c, row, train, r) ==
    LET h == LayerNorm(Blocks(c, Embed(row), c.num_blocks, train, r))
    IN  [t \in 1..Len(row) |-> <<"lm_head", h[t]>>]

\* the output of the first block's attention module on the embedded row
FirstAttention(c, row, train, r) ==
    MultiHeadAttentionForward(c, LayerNorm(Embed(row)), train, r)

AttInit ==
    /\ att_in = <<>>
    /\ att_mode = TRUE
    /\ att_attn = <<>>
    /\ att_logits = <<>>

\* self.eval(), as generate and estimate_loss call it before their forward passes
ModelEval ==
    /\ pc = "idle"
    /\ att_in = <<>>
    /\ training
    /\ training' = FALSE
    /\ UNCHANGED <<pc, prior, seed, max_new_tokens, steps, idx, idx_crop, err, attVars>>

\* self.train(), as generate and estimate_loss call it after their forward passes
ModelTrain ==
    /\ pc = "idle"
    /\ att_in = <<>>
    /\ ~training
    /\ training' = TRUE
    /\ UNCHANGED <<pc, prior, seed, max_new_tokens, steps, idx, idx_crop, err, attVars>>

\* two forward passes m(row1), m(row2) on rows of the same length within the
\* context window, in the mode the model is in
ForwardPair ==
    /\ made = "ok"
    /\ pc = "idle"
    /\ att_in = <<>>
    /\ \E row1 \in SeqsUpTo(AttnIds, cfg.block_size) \ {<<>>},
          row2 \in SeqsUpTo(AttnIds, cfg.block_size) \ {<<>>},
          r1 \in DropoutDraws, r2 \in DropoutDraws :
        /\ Len(row1) = Len(row2)
        /\ ForwardOutcome(cfg, row1) = "ok"
        /\ ForwardOutcome(cfg, row2) = "ok"
        /\ att_in' = <<row1, row2>>
        /\ att_mode' = training
        /\ att_attn' = <<FirstAttention(cfg, row1, training, r1),
                         FirstAttention(cfg, row2, training, r2)>>
        /\ att_logits' = <<Logits(cfg, row1, training, r1),
                           Logits(cfg, row2, training, r2)>>
    /\ UNCHANGED genVars

\* the caller has compared the two outputs
ForwardPairDone ==
    /\ att_in # <<>>
    /\ att_in' = <<>>
    /\ att_mode' = TRUE
    /\ att_attn' = <<>>
    /\ att_logits' = <<>>
    /\ UNCHANGED genVars

(***************************************************************************)
(* The training loop and estimate_loss.                                    *)
(***************************************************************************)
\* max_iters, eval_interval and eval_iters are 20000, 500 and 100 in the
\* notebook; the loop is run here with small values of them
max_iters == 3
eval_interval == 2
eval_iters == 2
MaxRuns == 1

\* for split in ['train', 'val']
splits == <<"train", "val">>

\* what forward reads of a row of a batch of generate_batch: block_size
\* vocabulary ids
BatchRow(c) == Repeat(ctoi["<PAD>"], c.block_size)

TlInit ==
    /\ tl_pc = "out"
    /\ epoch = 0
    /\ params = 0
    /\ grads = "none"
    /\ est_split = 1
    /\ est_k = 0
    /\ ops = <<>>
    /\ runs = 0
    /\ aborted = FALSE
    /\ gen_done = FALSE

\* the cell of the training loop is run: for epoch in range(max_iters)
TrainLoopStart ==
    /\ tl_pc = "out"
    /\ pc = "idle"
    /\ made = "ok"
    /\ runs < MaxRuns
    /\ runs' = runs + 1
    /\ epoch' = 0
    /\ tl_pc' = "batch"
    /\ UNCHANGED <<params, grads, est_split, est_k, ops, aborted, gen_done, genVars>>

\* xb, yb = generate_batch(block_size, batch_size, max_digits, backward=True)
TrainBatch ==
    /\ tl_pc = "batch"
    /\ ops' = <<"generate_batch">>
    /\ tl_pc' = "forward"
    /\ UNCHANGED <<epoch, params, grads, est_split, est_k, runs, aborted, gen_done, genVars>>

\* _, loss = m(xb, yb)
TrainForward ==
    /\ tl_pc = "forward"
    /\ IF ForwardOutcome(cfg, BatchRow(cfg)) = "ok"
       THEN /\ ops' = Append(ops, "forward")
            /\ tl_pc' = "zero_grad"
            /\ UNCHANGED aborted
       ELSE /\ tl_pc' = "raised"
            /\ aborted' = TRUE
            /\ UNCHANGED ops
    /\ UNCHANGED <<epoch, params, grads, est_split, est_k, runs, gen_done, genVars>>

\* optimizer.zero_grad(set_to_none=True)
TrainZeroGrad ==
    /\ tl_pc = "zero_grad"
    /\ grads' = "none"
    /\ ops' = Append(ops, "zero_grad")
    /\ tl_pc' = "backward"
    /\ UNCHANGED <<epoch, params, est_split, est_k, runs, aborted, gen_done, genVars>>

\* loss.backward()
TrainBackward ==
    /\ tl_pc = "backward"
    /\ grads' = "computed"
    /\ ops' = Append(ops, "backward")
    /\ tl_pc' = "step"
    /\ UNCHANGED <<epoch, params, est_split, est_k, runs, aborted, gen_done, genVars>>

\* optimizer.step(), then the test epoch % eval_interval == 0
TrainOptimizerStep ==
    /\ tl_pc = "step"
    /\ params' = params + 1
    /\ ops' = Append(ops, "optimizer_step")
    /\ tl_pc' = IF epoch % eval_interval = 0 THEN "est_enter" ELSE "next"
    /\ UNCHANGED <<epoch, grads, est_split, est_k, runs, aborted, gen_done, genVars>>

\* estimate_loss is entered: model.eval()
EstimateEnter ==
    /\ tl_pc = "est_enter"
    /\ training' = FALSE
    /\ est_split' = 1
    /\ est_k' = 0
    /\ ops' = Append(ops, "eval")
    /\ tl_pc' = "est_batch"
    /\ UNCHANGED <<epoch, params, grads, runs, aborted, gen_done, genLocals>>

\* X, Y = generate_batch(...)
EstimateBatch ==
    /\ tl_pc = "est_batch"
    /\ ops' = Append(ops, "generate_batch")
    /\ tl_pc' = "est_forward"
    /\ UNCHANGED <<epoch, params, grads, est_split, est_k, runs, aborted, gen_done, genVars>>

\* the evaluation's forward pass is followed by an optimizer update
EstimateForward_updates ==
    /\ tl_pc = "est_forward"
    /\ ops' = Append(ops, "forward")
    /\ params' = params + 1
    /\ IF est_k + 1 < eval_iters
       THEN /\ est_k' = est_k + 1
            /\ tl_pc' = "est_batch"
            /\ UNCHANGED est_split
       ELSE IF est_split < Len(splits)
       THEN /\ est_split' = est_split + 1
            /\ est_k' = 0
            /\ tl_pc' = "est_batch"
       ELSE /\ tl_pc' = "est_exit"
            /\ UNCHANGED <<est_split, est_k>>
    /\ UNCHANGED <<epoch, grads, runs, aborted, gen_done, genVars>>

\* _, loss = model(X, Y); losses[k] = loss.item(), under torch.no_grad();
\* then the next k, the next split, or the end of both loops
EstimateForward ==
    /\ tl_pc = "est_forward"
    /\ IF ForwardOutcome(cfg, BatchRow(cfg)) # "ok"
       THEN /\ tl_pc' = "raised"
            /\ aborted' = TRUE
            /\ UNCHANGED <<ops, est_split, est_k>>
       ELSE /\ ops' = Append(ops, "forward")
            /\ UNCHANGED aborted
            /\ IF est_k + 1 < eval_iters
               THEN /\ est_k' = est_k + 1
                    /\ tl_pc' = "est_batch"
                    /\ UNCHANGED est_split
               ELSE IF est_split < Len(splits)
               THEN /\ est_split' = est_split + 1
                    /\ est_k' = 0
                    /\ tl_pc' = "est_batch"
               ELSE /\ tl_pc' = "est_exit"
                    /\ UNCHANGED <<est_split, est_k>>
    /\ UNCHANGED <<epoch, params, grads, runs, gen_done, genVars>>

\* model.train(); return out
EstimateExit ==
    /\ tl_pc = "est_exit"
    /\ training' = TRUE
    /\ ops' = Append(ops, "train")
    /\ tl_pc' = "next"
    /\ UNCHANGED <<epoch, params, grads, est_split, est_k, runs, aborted, gen_done, genLocals>>

\* pbar.set_description(...); the next epoch, or the end of the loop
TrainNextEpoch ==
    /\ tl_pc = "next"
    /\ epoch' = epoch + 1
    /\ tl_pc' = IF epoch + 1 < max_iters THEN "batch" ELSE "out"
    /\ UNCHANGED <<params, grads, est_split, est_k, ops, runs, aborted, gen_done, genVars>>

\* test_gpt_adder calls m.generate while no training loop is running
TestGenerateCall ==
    /\ tl_pc = "out"
    /\ GenerateCall
    /\ UNCHANGED tlVars

\* one iteration of that generate call; an exception ends the call
TestGenerateStep ==
    /\ GenerateStep
    /\ aborted' = (aborted \/ pc' = "raised")
    /\ UNCHANGED <<tl_pc, epoch, params, grads, est_split, est_k, ops, runs, gen_done>>

\* that generate call returns
TestGenerateReturn ==
    /\ GenerateReturn
    /\ gen_done' = TRUE
    /\ UNCHANGED <<tl_pc, epoch, params, grads, est_split, est_k, ops, runs, aborted>>

\* test_gpt_adder goes on with the result, or the exception ends the cell
TestGenerateDone ==
    /\ GenerateDone
    /\ UNCHANGED tlVars

(***************************************************************************)
(* Specifications.                                                         *)
(***************************************************************************)
TokNext ==
    \/ TokEncode /\ UNCHANGED <<gbVars, cfgVars, genVars, attVars, tlVars>>
    \/ TokDecode /\ UNCHANGED <<gbVars, cfgVars, genVars, attVars, tlVars>>
    \/ TokDone /\ UNCHANGED <<gbVars, cfgVars, genVars, attVars, tlVars>>

GbNext ==
    \/ GenerateBatchCall /\ UNCHANGED <<tokVars, cfgVars, genVars, attVars, tlVars>>
    \/ GenerateBatchExample /\ UNCHANGED <<tokVars, cfgVars, genVars, attVars, tlVars>>
    \/ GenerateBatchReturn /\ UNCHANGED <<tokVars, cfgVars, genVars, attVars, tlVars>>
    \/ GenerateBatchDone /\ UNCHANGED <<tokVars, cfgVars, genVars, attVars, tlVars>>

CfgNext ==
    \/ Construct /\ UNCHANGED <<tokVars, gbVars, genVars, attVars, tlVars>>
    \/ ForwardCall /\ UNCHANGED <<tokVars, gbVars, genVars, attVars, tlVars>>
    \/ ForwardDone /\ UNCHANGED <<tokVars, gbVars, genVars, attVars, tlVars>>

FwdNext ==
    \/ ForwardCall /\ UNCHANGED <<tokVars, gbVars, genVars, attVars, tlVars>>
    \/ ForwardDone /\ UNCHANGED <<tokVars, gbVars, genVars, attVars, tlVars>>

GenNext ==
    \/ GenerateCall /\ UNCHANGED <<tokVars, gbVars, cfgVars, attVars, tlVars>>
    \/ GenerateStep /\ UNCHANGED <<tokVars, gbVars, cfgVars, attVars, tlVars>>
    \/ GenerateReturn /\ UNCHANGED <<tokVars, gbVars, cfgVars, attVars, tlVars>>
    \/ GenerateDone /\ UNCHANGED <<tokVars, gbVars, cfgVars, attVars, tlVars>>

AttnNext ==
    \/ ModelEval /\ UNCHANGED <<tokVars, gbVars, cfgVars, tlVars>>
    \/ ModelTrain /\ UNCHANGED <<tokVars, gbVars, cfgVars, tlVars>>
    \/ ForwardPair /\ UNCHANGED <<tokVars, gbVars, cfgVars, tlVars>>
    \/ ForwardPairDone /\ UNCHANGED <<tokVars, gbVars, cfgVars, tlVars>>

TrainNext ==
    \/ TrainLoopStart /\ UNCHANGED <<tokVars, gbVars, cfgVars, attVars>>
    \/ TrainBatch /\ UNCHANGED <<tokVars, gbVars, cfgVars, attVars>>
    \/ TrainForward /\ UNCHANGED <<tokVars, gbVars, cfgVars, attVars>>
    \/ TrainZeroGrad /\ UNCHANGED <<tokVars, gbVars, cfgVars, attVars>>
    \/ TrainBackward /\ UNCHANGED <<tokVars, gbVars, cfgVars, attVars>>
    \/ TrainOptimizerStep /\ UNCHANGED <<tokVars, gbVars, cfgVars, attVars>>
    \/ EstimateEnter /\ UNCHANGED <<tokVars, gbVars, cfgVars, attVars>>
    \/ EstimateBatch /\ UNCHANGED <<tokVars, gbVars, cfgVars, attVars>>
    \/ EstimateForward /\ UNCHANGED <<tokVars, gbVars, cfgVars, attVars>>
    \/ EstimateExit /\ UNCHANGED <<tokVars, gbVars, cfgVars, attVars>>
    \/ TrainNextEpoch /\ UNCHANGED <<tokVars, gbVars, cfgVars, attVars>>
    \/ TestGenerateCall /\ UNCHANGED <<tokVars, gbVars, cfgVars, attVars>>
    \/ TestGenerateStep /\ UNCHANGED <<tokVars, gbVars, cfgVars, attVars>>
    \/ TestGenerateReturn /\ UNCHANGED <<tokVars, gbVars, cfgVars, attVars>>
    \/ TestGenerateDone /\ UNCHANGED <<tokVars, gbVars, cfgVars, attVars>>

InitFresh == TokInit /\ GbInit /\ CfgInit /\ GenInit /\ AttInit /\ TlInit

InitNotebook == TokInit /\ GbInit /\ NotebookModelInit /\ GenInit /\ AttInit /\ TlInit

\* the tokenizer
SpecTok == InitFresh /\ [][TokNext]_vars

\* generate_batch
SpecBatch == InitFresh /\ [][GbNext]_vars

\* construction with any arguments, and forward passes on what was constructed
SpecCfg == InitFresh /\ [][CfgNext]_vars

\* forward passes on the notebook's model
SpecFwd == InitNotebook /\ [][FwdNext]_vars

\* generate calls on the notebook's model
SpecGen == InitNotebook /\ [][GenNext]_vars

\* pairs of forward passes on the notebook's model, in either mode
SpecAttn == InitNotebook /\ [][AttnNext]_vars

\* runs of the training loop, with its estimate_loss calls, and generate calls
\* before and after them, on the notebook's model
SpecTrain == InitNotebook /\ [][TrainNext]_vars

(***************************************************************************)
(* Properties of generate_batch (checked under SpecBatch).                 *)
(***************************************************************************)
\* the rows built so far by the running call, or none outside a call
Rows == 1..Len(inputs)

\* the position (1-based) of '=' in an input row
EqPos(row) == CHOOSE k \in 1..Len(row) : row[k] = ctoi["="]

\* the decimal digit of c with weight 10^e, as a token id
DigitId(c, e) == ctoi[DigitChars[((c \div Pow10(e)) % 10) + 1]]

\* C6: a call of generate_batch with block_size < 3*max_digits+7 fails on the
\* assertion before any example is built, and a call with
\* block_size >= 3*max_digits+7 does not fail.
C6_BlockSizeChecked ==
    gb_pc # "idle" =>
        /\ gb_args.block_size < 3 * gb_args.max_digits + 7 =>
              /\ gb_pc = "AssertionError"
              /\ inputs = <<>> /\ targets = <<>> /\ x = <<>> /\ y = <<>>
        /\ gb_args.block_size >= 3 * gb_args.max_digits + 7 =>
              gb_pc \in {"loop", "returned"}

\* a call with block_size exactly one less than the bound has failed
C6_Witness ==
    /\ gb_pc = "AssertionError"
    /\ gb_args.max_digits = 2
    /\ gb_args.block_size = 3 * gb_args.max_digits + 6

\* C7: in every example, the targets carrying the value the loss ignores are
\* exactly those whose original label is a prompt symbol up to and including
\* '='; the first target that counts is the first answer digit, at the
\* position whose input is '='.
C7_MaskIsPrompt ==
    \A r \in Rows :
        LET inp == inputs[r]
            tgt == targets[r]
            p == EqPos(inp)
            c == a + b
        IN  /\ {k \in 1..Len(tgt) : tgt[k] = ignore_index} = {k \in 1..Len(tgt) : k + 1 <= p}
            /\ LossPositions(tgt) = p..Len(tgt)
            /\ inp[p] = ctoi["="]
            /\ tgt[p] = inp[p + 1]
            /\ tgt[p] \in {ctoi[DigitChars[d]] : d \in 1..10}
            /\ r = Len(inputs) =>
                  tgt[p] = IF gb_args.backward THEN DigitId(c, 0)
                           ELSE DigitId(c, gb_args.max_digits)

\* a returned reversed-mode batch for max_digits = 2 whose '=' label is masked
\* and whose next target is not
C7_Witness ==
    /\ gb_pc = "returned"
    /\ gb_args.max_digits = 2
    /\ gb_args.backward
    /\ y[1][6] = -1
    /\ y[1][7] # -1

\* C8: every input row and every target row has length block_size; each
\* target that is not masked equals the next input, and the last target is PAD.
C8_ShiftedByOne ==
    \A r \in Rows :
        LET inp == inputs[r]
            tgt == targets[r]
            n == gb_args.block_size
        IN  /\ Len(inp) = n
            /\ Len(tgt) = n
            /\ \A k \in 1..(n - 1) : tgt[k] # MaskLabel => tgt[k] = inp[k + 1]
            /\ tgt[n] = ctoi["<PAD>"]

\* a returned batch of two examples at the smallest accepted block_size
C8_Witness ==
    /\ gb_pc = "returned"
    /\ gb_args.block_size = 3 * gb_args.max_digits + 7
    /\ Len(x) = 2
    /\ Len(y) = 2

\* C9: for the pair (a, b) of the example built last, the example of the other
\* digit order differs from it only in the max_digits+1 answer digits; the
\* reversed-mode digits read backwards are the forward-mode digits, which are
\* the zero-padded decimal digits of a+b.
C9_ReversedConsistent ==
    Len(inputs) >= 1 =>
        LET md == gb_args.max_digits
            n == gb_args.block_size
            other == ~gb_args.backward
            inp == inputs[Len(inputs)]
            tgt == targets[Len(targets)]
            oinp == InputRow(a, b, md, other, n)
            otgt == TargetRow(a, b, md, other, n)
            finp == IF gb_args.backward THEN oinp ELSE inp
            rinp == IF gb_args.backward THEN inp ELSE oinp
            ftgt == IF gb_args.backward THEN otgt ELSE tgt
            rtgt == IF gb_args.backward THEN tgt ELSE otgt
            ans == (2 * md + 3)
        IN  /\ \A k \in 1..n : (k <= ans \/ k > ans + md + 1) => inp[k] = oinp[k]
            /\ \A k \in 1..n : (k < ans \/ k > ans + md) => tgt[k] = otgt[k]
            /\ \A j \in 1..(md + 1) :
                  /\ finp[ans + j] = DigitId(a + b, md + 1 - j)
                  /\ rinp[ans + j] = finp[ans + md + 2 - j]
                  /\ ftgt[ans + j - 1] = DigitId(a + b, md + 1 - j)
                  /\ rtgt[ans + j - 1] = ftgt[ans + md + 1 - j]
            /\ finp[ans + md + 2] = ctoi["<END>"]
            /\ rinp[ans + md + 2] = ctoi["<END>"]

\* 98+98 = 196 in reversed mode: the input row carries 6, 9, 1 after '='
C9_Witness ==
    /\ gb_pc = "returned"
    /\ gb_args.backward
    /\ gb_args.max_digits = 2
    /\ a = 98 /\ b = 98
    /\ SubSeq(x[Len(x)], 8, 11) = <<ctoi["6"], ctoi["9"], ctoi["1"], ctoi["<END>"]>>

(***************************************************************************)
(* Properties of the tokenizer (checked under SpecTok).                    *)
(***************************************************************************)
\* C10: ctoi and itoc are inverse bijections between the vocabulary symbols
\* and the ids 0..vocab_size-1, so decode undoes encode on symbols and encode
\* undoes decode on ids.
C10_TokenizerBijection ==
    /\ Cardinality(Symbols) = vocab_size
    /\ \A s \in Symbols : ctoi[s] \in Ids /\ itoc[ctoi[s]] = s
    /\ \A i \in Ids : itoc[i] \in Symbols /\ ctoi[itoc[i]] = i
    /\ \A s \in Symbols : decode(encode(<<s>>)) = <<s>>
    /\ \A i \in Ids : encode(decode(<<i>>)) = <<i>>
    /\ tok_op = "encode" => decode(tok_ids) = tok_sym
    /\ tok_op = "decode" => encode(tok_sym) = tok_ids

\* decode([3, 13]) has been computed: the symbols '10' and '<PAD>'
C10_Witness ==
    /\ tok_op = "decode"
    /\ tok_ids = <<3, 13>>
    /\ tok_sym = <<"10", "<PAD>">>

(***************************************************************************)
(* Properties of generate (checked under SpecGen).                         *)
(***************************************************************************)
Min(p, q) == IF p <= q THEN p ELSE q

\* the running sequence is the seed followed by one token per completed step
RunningIntact ==
    /\ Len(idx) = Len(seed) + steps
    /\ SubSeq(idx, 1, Len(seed)) = seed

\* on return, exactly max_new_tokens steps were taken
ReturnedFull ==
    pc = "returned" => steps = max_new_tokens /\ RunningIntact

\* C1: on every exit of generate, by return or by an error raised in the
\* loop, the model is in the mode it was in when generate was called.
C1_ModeRestored ==
    pc \in {"returned", "raised"} => training = prior

\* C2 as stated: for every seed of vocabulary ids, generate does not fail and
\* returns after exactly max_new_tokens steps the seed followed by
\* max_new_tokens tokens.
C2_EverySeedReturnsFull ==
    TokenEmbeddingOk(cfg, seed) => pc # "raised" /\ ReturnedFull

\* C2 amended: the same for every seed of vocabulary ids that is not empty
\* (or when no token is requested); whatever token is sampled, <END> and
\* <PAD> included, the loop goes on to max_new_tokens steps.
C2_NonEmptySeedReturnsFull ==
    (TokenEmbeddingOk(cfg, seed) /\ (Len(seed) >= 1 \/ max_new_tokens = 0)) =>
        pc # "raised" /\ ReturnedFull

\* a returned call of two steps whose first sampled token was <END>
C2_Witness ==
    /\ pc = "returned"
    /\ Len(seed) = 2
    /\ max_new_tokens = 2
    /\ steps = 2
    /\ Len(idx) = 4
    /\ idx[3] = ctoi["<END>"]

\* C3: the sequence handed to each forward pass is the last
\* min(length, block_size) tokens of the running sequence, so it never has
\* more than block_size tokens and, after the first step, ends with the token
\* sampled in the step before; the running sequence itself keeps every token.
C3_CropIsWindow ==
    /\ Len(idx_crop) <= cfg.block_size
    /\ pc \in {"loop", "returned", "raised"} => RunningIntact
    /\ (pc \in {"loop", "returned"} /\ steps >= 1) =>
          LET before == Len(idx) - 1
              w == Min(before, cfg.block_size)
          IN  /\ Len(idx_crop) = w
              /\ \A k \in 1..w : idx_crop[k] = idx[before - w + k]
    /\ (pc \in {"loop", "returned"} /\ steps >= 2) =>
          idx_crop[Len(idx_crop)] = idx[Len(seed) + steps - 1]
    /\ pc = "raised" =>
          LET w == Min(Len(idx), cfg.block_size)
          IN  /\ Len(idx_crop) = w
              /\ \A k \in 1..w : idx_crop[k] = idx[Len(idx) - w + k]

\* two steps on a seed longer than the context window of one token
C3_Witness ==
    /\ pc = "returned"
    /\ cfg.block_size = 1
    /\ Len(seed) = 2
    /\ steps = 2
    /\ Len(idx) = 4
    /\ idx_crop = <<idx[3]>>

(***************************************************************************)
(* Properties of the forward pass (checked under SpecFwd).                 *)
(***************************************************************************)
\* C4: a forward pass on a row longer than block_size fails, on the position
\* lookup when the ids are vocabulary ids; a forward pass on a row of 1 to
\* block_size vocabulary ids succeeds.
C4_OverflowFails ==
    fwd_out # "none" =>
        /\ Len(fwd_in) > cfg.block_size => fwd_out # "ok"
        /\ (Len(fwd_in) > cfg.block_size /\ TokenEmbeddingOk(cfg, fwd_in)) =>
              fwd_out = "pos_embedding:IndexError"
        /\ (Len(fwd_in) \in 1..cfg.block_size /\ TokenEmbeddingOk(cfg, fwd_in)) =>
              fwd_out = "ok"

\* a forward pass on block_size+1 vocabulary ids has failed
C4_Witness ==
    /\ Len(fwd_in) = cfg.block_size + 1
    /\ TokenEmbeddingOk(cfg, fwd_in)
    /\ fwd_out = "pos_embedding:IndexError"

(***************************************************************************)
(* Properties of construction (checked under SpecCfg).                     *)
(***************************************************************************)
\* C5: a model is constructed only from a configuration whose total head size
\* is a multiple of the number of heads, whatever num_blocks is, and no
\* forward pass is the first to fail on the configuration.
C5_InvalidConfigRejected ==
    /\ made = "ok" => cfg.head_size % cfg.num_heads = 0
    /\ fwd_out # "lm_head:RuntimeError"

(***************************************************************************)
(* Properties of the attention and the logits (checked under SpecAttn).    *)
(***************************************************************************)
\* the two rows agree on the positions 1..t
AgreeUpTo(t) == \A s \in 1..t : att_in[1][s] = att_in[2][s]

\* C11: in eval mode, for two rows of the same length that agree on the
\* positions up to t, the attention output and the logits at position t are
\* equal, whatever the tokens after t.
C11_Causal ==
    (att_in # <<>> /\ ~att_mode) =>
        \A t \in 1..Len(att_in[1]) :
            AgreeUpTo(t) =>
                /\ att_attn[1][t] = att_attn[2][t]
                /\ att_logits[1][t] = att_logits[2][t]

\* two eval-mode passes on rows that differ only in their second token: equal
\* outputs at the first position, different ones at the second
C11_Witness ==
    /\ att_in # <<>>
    /\ ~att_mode
    /\ Len(att_in[1]) = 2
    /\ att_in[1][1] = att_in[2][1]
    /\ att_in[1][2] # att_in[2][2]
    /\ att_attn[1][1] = att_attn[2][1]
    /\ att_logits[1][1] = att_logits[2][1]
    /\ att_attn[1][2] # att_attn[2][2]
    /\ att_logits[1][2] # att_logits[2][2]


\* the operations of estimate_loss, in order: model.eval(), eval_iters batches
\* each followed by its forward pass for every split, model.train()
RECURSIVE EvalBatches(_)
EvalBatches(n) ==
    IF n = 0 THEN <<>> ELSE <<"generate_batch", "forward">> \o EvalBatches(n - 1)

EvalOps == <<"eval">> \o EvalBatches(Len(splits) * eval_iters) \o <<"train">>

UpdateOps == <<"generate_batch", "forward", "zero_grad", "backward", "optimizer_step">>

\* the operations of the whole step of epoch e
StepOps(e) == UpdateOps \o (IF e % eval_interval = 0 THEN EvalOps ELSE <<>>)

IsPrefix(s, t) == Len(s) <= Len(t) /\ s = SubSeq(t, 1, Len(s))

InEstimate == tl_pc \in {"est_enter", "est_batch", "est_forward", "est_exit"}

\* C12: in every step of the training loop the operations come in the order
\* batch generation, forward pass, gradient reset, backward pass, optimizer
\* update and only then, in the epochs that evaluate, estimate_loss with all its
\* batches; no step taken inside estimate_loss changes the parameters, the
\* parameters change only by the optimizer update that follows the step's
\* backward pass, and a step ends only when all its operations have run.
C12_EvalAfterUpdateReadOnly ==
    /\ [](tl_pc \notin {"out", "raised", "batch"} => IsPrefix(ops, StepOps(epoch)))
    /\ [](tl_pc = "batch" /\ epoch > 0 => ops = StepOps(epoch - 1))
    /\ [][InEstimate => params' = params]_vars
    /\ [][params' # params =>
            /\ tl_pc = "step"
            /\ ops = SubSeq(UpdateOps, 1, 4)
            /\ params' = params + 1]_vars
    /\ [][tl_pc' = "est_enter" => tl_pc = "step" /\ params' = params + 1]_vars
    /\ [][epoch' = epoch + 1 => ops = StepOps(epoch)]_vars

\* the step of epoch 0 has run to its end, evaluation included, and the
\* parameters carry exactly its one update
C12_Witness ==
    /\ tl_pc = "batch"
    /\ epoch = 1
    /\ ops = StepOps(0)
    /\ Len(ops) = 5 + 2 + 2 * Len(splits) * eval_iters
    /\ params = 1


\* C13: from a freshly built model, as long as every call so far has run to
\* completion, a training step's forward pass is issued with the model in
\* train mode, and the forward passes of estimate_loss and of generate are
\* issued with the model in eval mode.
C13_ForwardModes ==
    ~aborted =>
        /\ tl_pc = "forward" => training
        /\ tl_pc = "est_forward" => ~training
        /\ (pc = "loop" /\ steps < max_new_tokens) => ~training

\* a training step's forward pass is about to run in train mode after a
\* generate call has returned and the estimate_loss of epoch 0 has run to its
\* end
C13_Witness ==
    /\ ~aborted
    /\ gen_done
    /\ tl_pc = "forward"
    /\ epoch = 1
    /\ training

====
